---- MODULE Spec2Model ----
(***************************************************************************)
(* Evalu8: the interview / evaluation orchestration core.                  *)
(*                                                                         *)
(*   server/routes.ts (src/unnamed/part_003)   the request handlers        *)
(*   server/storage.ts                         the record store            *)
(*   shared/schema.ts (src/unnamed/part_000)   the tables                  *)
(*   server/services/interviewAgent.ts         the Conductor               *)
(*   server/services/evaluationAgent.ts (src/unnamed/part_002) the Scorer  *)
(*                                                                         *)
(* A handler runs on the Node event loop: it is atomic between two awaits. *)
(* Every await of the candidate-facing send and submit handlers that      *)
(* touches a row another request can change is one step of the model, so   *)
(* that two requests interleave exactly where the code lets them; a read   *)
(* of the Job, which nothing changes, and a call of an agent, which reads  *)
(* and writes no row, are taken with the step before them.                 *)
(***************************************************************************)
EXTENDS Integers, Sequences, FiniteSets, TLC

VARIABLES
    status,       \* applications.status of the Application
    submittedAt,  \* applications.submitted_at: 0 is NULL, n > 0 the n-th instant stamped
    messages,     \* the messages table, in creation order
    flags,        \* the flags table, in creation order
    evaluations,  \* the evaluations table, in creation order
    req,          \* the in-flight candidate-facing requests, one record per slot
    answered,     \* the request the last step answered, with its response (Idle: none)
    started,      \* candidate-facing requests started so far
    agentIn,      \* the completion outcome handed to an agent run on its own
    agentOut,     \* what that agent returned
    scorerCalls,  \* calls of runEvaluationAgent made so far for the Application
    now           \* the database clock: the instant now() returns

vars == <<status, submittedAt, messages, flags, evaluations, req, answered,
          started, agentIn, agentOut, scorerCalls, now>>

(***************************************************************************)
(* Bounds of the model.                                                    *)
(***************************************************************************)
\* candidate-facing requests (send, submit) started in one behaviour
MaxReq == 2
\* Messages created in a behaviour of the one-step handlers
MaxMessages == 3
\* ticks of the database clock in a behaviour of the one-step handlers
MaxClock == 2
\* the largest num_questions of a Job whose prompt is built on its own
MaxQuestions == 4
\* the most assistant Messages in a transcript whose prompt is built on its own
MaxTurns == 4

(***************************************************************************)
(* JavaScript values.  A value is a record [t, n, s, a]: t is the type     *)
(* tag, n the number in tenths (72.5 is 725), s the string, a the array's  *)
(* elements.  NaN is a number in JavaScript; it has its own tag here.      *)
(***************************************************************************)
Undefined == [t |-> "undefined", n |-> 0, s |-> "", a |-> <<>>]
Null == [t |-> "null", n |-> 0, s |-> "", a |-> <<>>]
True == [t |-> "boolean", n |-> 1, s |-> "", a |-> <<>>]
False == [t |-> "boolean", n |-> 0, s |-> "", a |-> <<>>]
NaN == [t |-> "NaN", n |-> 0, s |-> "", a |-> <<>>]
Obj == [t |-> "object", n |-> 0, s |-> "", a |-> <<>>]
Tenths(n) == [t |-> "number", n |-> n, s |-> "", a |-> <<>>]
Num(i) == Tenths(10 * i)
Str(x) == [t |-> "string", n |-> 0, s |-> x, a |-> <<>>]
Arr(items) == [t |-> "array", n |-> 0, s |-> "", a |-> items]

\* ToBoolean: what  !v  and  v || d  test
Truthy(v) ==
    CASE v.t \in {"undefined", "null", "NaN"} -> FALSE
      [] v.t = "boolean" -> v.n = 1
      [] v.t = "number" -> v.n # 0
      [] v.t = "string" -> v.s # ""
      [] OTHER -> TRUE

\* v || d
Or(v, d) == IF Truthy(v) THEN v ELSE d

\* StringToNumber, for the strings of this model: a numeric literal is its
\* number, the empty string is 0, any other text is NaN
StringToNumber(x) ==
    CASE x = "" -> Num(0)
      [] x = "85" -> Num(85)
      [] x = "250" -> Num(250)
      [] OTHER -> NaN

\* ToNumber, the coercion Math.round applies to its argument.  An array is
\* converted through its string: [] is "" is 0; the non-empty arrays of this
\* model hold text or objects and are NaN.
ToNumber(v) ==
    CASE v.t = "number" -> v
      [] v.t = "NaN" -> NaN
      [] v.t = "undefined" -> NaN
      [] v.t = "null" -> Num(0)
      [] v.t = "boolean" -> Num(v.n)
      [] v.t = "string" -> StringToNumber(v.s)
      [] v.t = "array" -> IF v.a = <<>> THEN Num(0) ELSE NaN
      [] OTHER -> NaN

\* Math.round: the nearest integer, a half rounding up (towards +infinity)
MathRound(v) ==
    LET x == ToNumber(v)
    IN  IF x.t = "NaN" THEN NaN ELSE Tenths(((x.n + 5) \div 10) * 10)

\* Math.min(a, b) and Math.max(a, b): NaN as soon as an argument is NaN
MathMin(x, y) ==
    LET a == ToNumber(x)
        b == ToNumber(y)
    IN  IF a.t = "NaN" \/ b.t = "NaN" THEN NaN
        ELSE IF a.n <= b.n THEN a ELSE b

MathMax(x, y) ==
    LET a == ToNumber(x)
        b == ToNumber(y)
    IN  IF a.t = "NaN" \/ b.t = "NaN" THEN NaN
        ELSE IF a.n >= b.n THEN a ELSE b

IsInteger(v) == v.t = "number" /\ v.n % 10 = 0
IsString(v) == v.t = "string"
IsArray(v) == v.t = "array"

(***************************************************************************)
(* The completion service.  One call ends in one of four ways: the call    *)
(* throws; its text is not JSON; its text is JSON but no object (null, a   *)
(* number: reading or setting a field of it throws, the modules being      *)
(* strict code); or it is a JSON object, whose fields are in body.         *)
(***************************************************************************)
Throws == [kind |-> "throws"]
Unparseable == [kind |-> "unparseable"]
NonObject == [kind |-> "nonobject"]
Parsed(b) == [kind |-> "object", body |-> b]

(***************************************************************************)
(* The Conductor: runInterviewAgent.                                       *)
(***************************************************************************)
StageTags == {"introduction", "questioning", "follow_up", "closing"}
ClarifyMsg == "Could you elaborate on that?"
InterviewFallbackMsg ==
    "Thank you for your response. Could you tell me more about how you would handle a challenging situation in this role?"

\* an element of detected_flags: an object with its three fields, or not an object
FlagObj(sev, cat, exc) ==
    [t |-> "object", severity |-> sev, category |-> cat, excerpt |-> exc]
NullItem ==
    [t |-> "null", severity |-> Undefined, category |-> Undefined, excerpt |-> Undefined]

\* if (!parsed.assistant_message) parsed.assistant_message = "Could you elaborate on that?"
NormMessageDropsCheck(v) == v
NormMessage(v) == IF ~Truthy(v) THEN Str(ClarifyMsg) ELSE v

\* if (!Array.isArray(parsed.detected_flags)) parsed.detected_flags = []
NormFlags(v) == IF ~IsArray(v) THEN Arr(<<>>) ELSE v

\* if (![four tags].includes(parsed.stage)) parsed.stage = "questioning"
NormStage(v) ==
    IF ~(IsString(v) /\ v.s \in StageTags) THEN Str("questioning") ELSE v

\* the catch block's return value
InterviewFallbackNoMessage ==
    [assistant_message |-> Str(""),
     detected_flags |-> Arr(<<>>),
     stage |-> Str("questioning")]
InterviewFallback ==
    [assistant_message |-> Str(InterviewFallbackMsg),
     detected_flags |-> Arr(<<>>),
     stage |-> Str("questioning")]

\* const questionCount = conversationHistory.filter(m => m.role === "assistant").length
questionCount(conversationHistory) ==
    Len(SelectSeq(conversationHistory, LAMBDA m : m.role = "assistant"))

\* what runInterviewAgent writes into the system prompt of a turn:
\*   const maxQuestions = job.numQuestions || 8;
\*   Maximum Questions: ${maxQuestions}   Questions Asked So Far: ${questionCount}
\*   "closing" if wrapping up (${questionCount} >= ${maxQuestions - 1})
PromptParams(job, conversationHistory) ==
    LET maxQuestions == IF job.numQuestions # 0 THEN job.numQuestions ELSE 8
    IN  [questionCount |-> questionCount(conversationHistory),
         maxQuestions |-> maxQuestions,
         closingThreshold |-> maxQuestions - 1]

\* the role-tagged turns runInterviewAgent sends after the system prompt:
\*   for (const msg of conversationHistory) messages.push({ role: msg.role, content: msg.content });
\*   messages.push({ role: "user", content: candidateMessage });
PromptMessages(conversationHistory, candidateMessage) ==
    Append([i \in 1..Len(conversationHistory) |->
               [role |-> conversationHistory[i].role,
                content |-> conversationHistory[i].content]],
           [role |-> "user", content |-> candidateMessage])

\* the truth of the condition the prompt spells out
ClosingEligible(p) == p.questionCount >= p.closingThreshold

\* the value runInterviewAgent resolves to, the completion ending as c; it
\* never rejects: everything from the call on is inside the try
runInterviewAgent(c) ==
    IF c.kind = "object"
    THEN [assistant_message |-> NormMessage(c.body.assistant_message),
          detected_flags |-> NormFlags(c.body.detected_flags),
          stage |-> NormStage(c.body.stage)]
    ELSE InterviewFallback

(***************************************************************************)
(* The Scorer: runEvaluationAgent.                                         *)
(***************************************************************************)
ScoreFields == {"overallScore", "decisionQuality", "communicationClarity",
                "structuredProcess", "riskAwareness", "professionalJudgment"}
RecommendationTags == {"strong_hire", "hire", "maybe", "no_hire", "strong_no_hire"}
FallbackSummary ==
    "The evaluation could not be fully completed due to a processing error. A manual review is recommended."

\* const clamp = (v: number) => Math.max(0, Math.min(100, Math.round(v || 0)))
clamp(v) == MathMax(Num(0), MathMin(Num(100), MathRound(Or(v, Num(0)))))

\* if (!parsed.recommendation) parsed.recommendation = "maybe"
NormRecommendation(v) == IF ~Truthy(v) THEN Str("maybe") ELSE v

\* if (!parsed.summary) parsed.summary = "Evaluation completed."
NormSummary(v) == IF ~Truthy(v) THEN Str("Evaluation completed.") ELSE v

\* if (!Array.isArray(parsed.strengths)) parsed.strengths = []   (and concerns)
NormList(v) == IF ~IsArray(v) THEN Arr(<<>>) ELSE v

\* the catch block's return value
EvaluationFallbackZeroes ==
    [overallScore |-> Num(0), decisionQuality |-> Num(0),
     communicationClarity |-> Num(0), structuredProcess |-> Num(0),
     riskAwareness |-> Num(0), professionalJudgment |-> Num(0),
     recommendation |-> Str("no_hire"),
     summary |-> Str(FallbackSummary),
     strengths |-> Arr(<<>>),
     concerns |-> Arr(<<Str("Automated evaluation encountered an error")>>)]
EvaluationFallback ==
    [overallScore |-> Num(50), decisionQuality |-> Num(50),
     communicationClarity |-> Num(50), structuredProcess |-> Num(50),
     riskAwareness |-> Num(50), professionalJudgment |-> Num(50),
     recommendation |-> Str("maybe"),
     summary |-> Str(FallbackSummary),
     strengths |-> Arr(<<Str("Completed the interview simulation")>>),
     concerns |-> Arr(<<Str("Automated evaluation encountered an error")>>)]

\* the value runEvaluationAgent resolves to, the completion ending as c; it
\* never rejects: everything from the call on is inside the try
runEvaluationAgent(c) ==
    IF c.kind = "object"
    THEN [overallScore |-> clamp(c.body.overallScore),
          decisionQuality |-> clamp(c.body.decisionQuality),
          communicationClarity |-> clamp(c.body.communicationClarity),
          structuredProcess |-> clamp(c.body.structuredProcess),
          riskAwareness |-> clamp(c.body.riskAwareness),
          professionalJudgment |-> clamp(c.body.professionalJudgment),
          recommendation |-> NormRecommendation(c.body.recommendation),
          summary |-> NormSummary(c.body.summary),
          strengths |-> NormList(c.body.strengths),
          concerns |-> NormList(c.body.concerns)]
    ELSE EvaluationFallback

(***************************************************************************)
(* The record store (server/storage.ts over the tables of shared/schema).  *)
(* There is one Job, owned by one recruiter, and one Application of it,    *)
(* created by intake before the behaviour starts.                          *)
(***************************************************************************)
AppId == "app-1"
JobOwner == "recruiter-1"
Statuses == {"pending", "in_progress", "submitted", "evaluated", "accepted", "rejected"}

\* the Job, with the defaults of the jobs table
TheJob ==
    [ownerId |-> JobOwner, numQuestions |-> 8, timeLimitMinutes |-> 15,
     isActive |-> TRUE]

\* storage.getJob(application.jobId): applications.job_id references jobs.id
\* and no operation deletes a Job
JobFound == TRUE

\* evaluations.application_id is .unique(): an insert of a second row for the
\* same Application is refused by the database
NoUniqueConstraint(rows, applicationId) == FALSE
UniqueViolation(rows, applicationId) ==
    \E i \in 1..Len(rows) : rows[i].applicationId = applicationId

\* db.insert(table).values(row).returning(): the table gains the row, and
\* every row it had stays as it was
InsertDroppingRows(rows, row) == <<row>>
Insert(rows, row) == Append(rows, row)

\* a NOT NULL column refuses null and undefined
NotNullViolation(v) == v.t \in {"undefined", "null"}

\* storage.getMessagesByApplication(id): the Application's rows, by created_at
getMessagesByApplication(rows) == rows

(***************************************************************************)
(* The candidate-facing requests.  A slot holds one request from its start *)
(* to its response: at most two requests are in flight at a time.  The     *)
(* request a step answers is in  answered  right after that step.  Besides *)
(* the handler's own variables a record keeps what the request did: the    *)
(* rows it created (msgs, nflags, evals), the status values it wrote       *)
(* (writes), whether a record-store call failed on it (failed), whether    *)
(* the inner catch of the submit ran (evalThrew) and whether its agent     *)
(* took the catch branch (fellBack).                                       *)
(***************************************************************************)
Slots == {1, 2}

NoResponse == [code |-> 0, message |-> ""]
Idle ==
    [kind |-> "idle", pc |-> "idle", known |-> TRUE, content |-> "",
     readStatus |-> "", hist |-> <<>>, fellBack |-> FALSE, ai |-> <<>>, i |-> 0,
     resp |-> NoResponse, failed |-> FALSE, evalThrew |-> FALSE, writes |-> <<>>,
     histLen |-> 0, msgs |-> <<>>, nflags |-> 0, evals |-> <<>>, body |-> <<>>,
     turns |-> <<>>]

\* res.status(code).json({ message })
Respond(rq, code, message) ==
    [rq EXCEPT !.pc = "done", !.resp = [code |-> code, message |-> message]]

\* a record-store call of the request rejects; the handler's outer catch answers 500
Failed(rq, message) == [Respond(rq, 500, message) EXCEPT !.failed = TRUE]


\* the request in slot r becomes rq: still in flight, or answered, which frees the slot
Becomes(r, rq) ==
    IF rq.pc = "done"
    THEN /\ req' = [req EXCEPT ![r] = Idle]
         /\ answered' = [rq EXCEPT !.hist = <<>>, !.ai = <<>>, !.i = 0, !.content = ""]
    ELSE /\ req' = [req EXCEPT ![r] = rq]
         /\ answered' = Idle

\* a request arrives; it takes the first free slot
Start(r, kind, known, content) ==
    /\ req[r].pc = "idle"
    /\ \A q \in Slots : q < r => req[q].pc # "idle"
    /\ started < MaxReq
    /\ req' = [req EXCEPT ![r] = [Idle EXCEPT !.kind = kind, !.pc = "getApplication",
                                              !.known = known,
                                              !.content = content]]
    /\ started' = started + 1
    /\ answered' = Idle
    /\ UNCHANGED <<status, submittedAt, messages, flags, evaluations,
                   agentIn, agentOut, scorerCalls, now>>

(***************************************************************************)
(* POST /api/public/applications/:appId/message                            *)
(***************************************************************************)
\* if (application.status === "submitted" || application.status === "evaluated")
SendClosedOnlySubmitted(st) == st = "submitted"
SendClosed(st) == st \in {"submitted", "evaluated"}

StartSend(r) ==
    \E known \in BOOLEAN, content \in {"", "I would call the client first."} :
        Start(r, "send", known, content)

\* const application = await storage.getApplication(...), the two checks on it,
\* const job = await storage.getJob(application.jobId), and the check of
\* req.body.content.  The Job never changes, so nothing another request does
\* can be seen between the two reads: they are one step.
SendGetApplication(r) ==
    /\ req[r].kind = "send" /\ req[r].pc = "getApplication"
    /\ \/ Becomes(r, Failed(req[r], "Failed to process message"))
       \/ Becomes(r,
             IF ~req[r].known THEN Respond(req[r], 404, "Application not found")
             ELSE IF SendClosed(status)
             THEN Respond([req[r] EXCEPT !.readStatus = status], 400,
                          "Interview already submitted")
             ELSE IF ~JobFound THEN Respond(req[r], 404, "Job not found")
             ELSE IF req[r].content = ""
             THEN Respond([req[r] EXCEPT !.readStatus = status], 400,
                          "Message content is required")
             ELSE [req[r] EXCEPT !.pc = "createUserMessage"])
    /\ UNCHANGED <<status, submittedAt, messages, flags, evaluations,
                   started, agentIn, agentOut, scorerCalls, now>>

\* await storage.createMessage({ applicationId, role: "user", content })
SendCreateUserMessage(r) ==
    /\ req[r].kind = "send" /\ req[r].pc = "createUserMessage"
    /\ \/ /\ Becomes(r, Failed(req[r], "Failed to process message"))
          /\ UNCHANGED messages
       \/ /\ messages' = Insert(messages, [role |-> "user",
                                           content |-> Str(req[r].content)])
          /\ Becomes(r, [req[r] EXCEPT !.msgs = Append(@, Len(messages) + 1),
                                       !.pc = "getMessages"])
    /\ UNCHANGED <<status, submittedAt, flags, evaluations, started,
                   agentIn, agentOut, scorerCalls, now>>



\* what the completion service may answer to a turn: the cases a handler meets
GoodFlag == FlagObj(Str("medium"), Str("evasiveness"), Str("avoided the question"))
ConductorOutcomes ==
    {Throws,
     Unparseable,
     Parsed([assistant_message |-> Str("Thank you, that is all."),
             detected_flags |-> Arr(<<GoodFlag>>),
             stage |-> Str("closing")]),
     Parsed([assistant_message |-> Str(""),
             detected_flags |-> Str("not-an-array"),
             stage |-> Str("bogus")]),
     Parsed([assistant_message |-> Str("Tell me more."),
             detected_flags |-> Arr(<<GoodFlag, NullItem>>),
             stage |-> Str("follow_up")])}

\* const conversationHistory = await storage.getMessagesByApplication(application.id);
\* const aiResponse = await runInterviewAgent(job, conversationHistory, content).
\* The agent's call reads and writes nothing of the record store, so it is one
\* step with the read before it.
SendGetMessages(r) ==
    /\ req[r].kind = "send" /\ req[r].pc = "getMessages"
    /\ \/ Becomes(r, Failed(req[r], "Failed to process message"))
       \/ \E c \in ConductorOutcomes :
             Becomes(r, [req[r] EXCEPT !.hist = getMessagesByApplication(messages),
                                       !.histLen = Len(getMessagesByApplication(messages)),
                                       !.fellBack = (c.kind # "object"),
                                       !.turns = PromptMessages(
                                                    getMessagesByApplication(messages),
                                                    Str(req[r].content)),
                                       !.ai = runInterviewAgent(c),
                                       !.pc = "createAssistantMessage"])
    /\ UNCHANGED <<status, submittedAt, messages, flags, evaluations,
                   started, agentIn, agentOut, scorerCalls, now>>

\* return res.json({ message: assistantMessage, stage: aiResponse.stage })
TurnResponse(rq) ==
    [Respond(rq, 200, "") EXCEPT
        !.body = [message |-> [role |-> "assistant",
                               content |-> rq.ai.assistant_message],
                  stage |-> rq.ai.stage]]

\* for (const flag of aiResponse.detected_flags): the request before its k-th
\* flag.  Past the last one the handler answers; reading flag.severity of an
\* element that is null throws a TypeError, which the outer catch answers.
SendFlagLoop(rq, k) ==
    IF k > Len(rq.ai.detected_flags.a)
    THEN TurnResponse(rq)
    ELSE IF rq.ai.detected_flags.a[k].t \in {"null", "undefined"}
         THEN Respond(rq, 500, "Failed to process message")
         ELSE [rq EXCEPT !.pc = "createFlag", !.i = k]

\* const assistantMessage = await storage.createMessage({ ..., role: "assistant",
\*   content: aiResponse.assistant_message })
SendCreateAssistantMessage(r) ==
    /\ req[r].kind = "send" /\ req[r].pc = "createAssistantMessage"
    /\ \/ /\ Becomes(r, Failed(req[r], "Failed to process message"))
          /\ UNCHANGED messages
       \/ /\ IF NotNullViolation(req[r].ai.assistant_message)
             THEN /\ Becomes(r, Respond(req[r], 500, "Failed to process message"))
                  /\ UNCHANGED messages
             ELSE /\ messages' = Insert(messages, [role |-> "assistant",
                                                   content |-> req[r].ai.assistant_message])
                  /\ Becomes(r, SendFlagLoop([req[r] EXCEPT !.msgs = Append(@, Len(messages) + 1)], 1))
    /\ UNCHANGED <<status, submittedAt, flags, evaluations, started,
                   agentIn, agentOut, scorerCalls, now>>

\* await storage.createFlag({ applicationId, severity, category, excerpt })
SendCreateFlag(r) ==
    /\ req[r].kind = "send" /\ req[r].pc = "createFlag"
    /\ LET flag == req[r].ai.detected_flags.a[req[r].i]
       IN  \/ /\ Becomes(r, Failed(req[r], "Failed to process message"))
              /\ UNCHANGED flags
           \/ /\ IF \/ NotNullViolation(flag.severity)
                    \/ NotNullViolation(flag.category)
                    \/ NotNullViolation(flag.excerpt)
                 THEN /\ Becomes(r, Respond(req[r], 500, "Failed to process message"))
                      /\ UNCHANGED flags
                 ELSE /\ flags' = Insert(flags, [severity |-> flag.severity,
                                                 category |-> flag.category,
                                                 excerpt |-> flag.excerpt])
                      /\ Becomes(r, SendFlagLoop([req[r] EXCEPT !.nflags = @ + 1],
                                                 req[r].i + 1))
    /\ UNCHANGED <<status, submittedAt, messages, evaluations, started,
                   agentIn, agentOut, scorerCalls, now>>

(***************************************************************************)
(* POST /api/public/applications/:appId/submit                             *)
(***************************************************************************)
\* if (application.status === "submitted" || application.status === "evaluated")
SubmitClosed(st) == st \in {"submitted", "evaluated"}

\* if (conversationHistory.length > 0)
HasTranscriptOffByOne(history) == Len(history) > 1
HasTranscript(history) == Len(history) > 0

\* catch (evalError) { console.error(...) }, then the handler's success answer
SubmitCatchRethrows(rq) ==
    Respond([rq EXCEPT !.evalThrew = TRUE], 500, "Failed to submit interview")
SubmitCatch(rq) ==
    Respond([rq EXCEPT !.evalThrew = TRUE], 200, "Interview submitted successfully")

StartSubmit(r) == \E known \in BOOLEAN : Start(r, "submit", known, "")

\* const application = await storage.getApplication(...), the two checks on it,
\* and const job = await storage.getJob(application.jobId): one step, the Job
\* never changing
SubmitGetApplication(r) ==
    /\ req[r].kind = "submit" /\ req[r].pc = "getApplication"
    /\ \/ Becomes(r, Failed(req[r], "Failed to submit interview"))
       \/ Becomes(r,
             IF ~req[r].known THEN Respond(req[r], 404, "Application not found")
             ELSE IF SubmitClosed(status)
             THEN Respond([req[r] EXCEPT !.readStatus = status], 400,
                          "Interview already submitted")
             ELSE IF ~JobFound THEN Respond(req[r], 404, "Job not found")
             ELSE [req[r] EXCEPT !.pc = "submitApplication"])
    /\ UNCHANGED <<status, submittedAt, messages, flags, evaluations,
                   started, agentIn, agentOut, scorerCalls, now>>

\* storage.submitApplication(id):
\*   update applications set status = 'submitted', submitted_at = new Date() where id = ...
submitApplicationStatusOnly(app) == [app EXCEPT !.status = "submitted"]
submitApplication(app) ==
    [app EXCEPT !.status = "submitted", !.submittedAt = @ + 1]

\* await storage.submitApplication(application.id)
SubmitSubmitApplication(r) ==
    /\ req[r].kind = "submit" /\ req[r].pc = "submitApplication"
    /\ \/ /\ Becomes(r, Failed(req[r], "Failed to submit interview"))
          /\ UNCHANGED <<status, submittedAt>>
       \/ /\ LET updated == submitApplication([status |-> status,
                                                submittedAt |-> submittedAt])
             IN  /\ status' = updated.status
                 /\ submittedAt' = updated.submittedAt
          /\ Becomes(r, [req[r] EXCEPT !.writes = Append(@, "submitted"),
                                       !.pc = "getMessages"])
    /\ UNCHANGED <<messages, flags, evaluations, started, agentIn, agentOut, scorerCalls, now>>



\* what the completion service may answer to a scoring call
GoodScores ==
    [overallScore |-> Num(82), decisionQuality |-> Num(85),
     communicationClarity |-> Num(78), structuredProcess |-> Num(80),
     riskAwareness |-> Num(90), professionalJudgment |-> Num(77),
     recommendation |-> Str("hire"),
     summary |-> Str("A structured, careful candidate."),
     strengths |-> Arr(<<Str("clear priorities")>>),
     concerns |-> Arr(<<>>)]
OddScores ==
    [overallScore |-> Str("high"), decisionQuality |-> Num(150),
     communicationClarity |-> Tenths(725), structuredProcess |-> Undefined,
     riskAwareness |-> Null, professionalJudgment |-> Num(-5),
     recommendation |-> Str("definitely"),
     summary |-> Undefined,
     strengths |-> Str("none"),
     concerns |-> Undefined]
ScorerOutcomes == {Throws, Unparseable, Parsed(GoodScores), Parsed(OddScores)}

\* const conversationHistory = await storage.getMessagesByApplication(...);
\* if (conversationHistory.length > 0) {    (HasTranscript)
\*   const evalResult = await runEvaluationAgent(job, conversationHistory) ... }
\* The agent's call reads and writes nothing of the record store, so it is one
\* step with the read before it.
SubmitGetMessages(r) ==
    /\ req[r].kind = "submit" /\ req[r].pc = "getMessages"
    /\ LET history == getMessagesByApplication(messages)
       IN  \/ /\ Becomes(r, Failed(req[r], "Failed to submit interview"))
              /\ UNCHANGED scorerCalls
           \/ /\ ~HasTranscript(history)
              /\ Becomes(r, Respond([req[r] EXCEPT !.histLen = Len(history)], 200,
                                    "Interview submitted successfully"))
              /\ UNCHANGED scorerCalls
           \/ /\ HasTranscript(history)
              /\ scorerCalls' = scorerCalls + 1
              /\ \E c \in ScorerOutcomes :
                    Becomes(r, [req[r] EXCEPT !.hist = history,
                                              !.histLen = Len(history),
                                              !.fellBack = (c.kind # "object"),
                                              !.ai = runEvaluationAgent(c),
                                              !.pc = "createEvaluation"])
    /\ UNCHANGED <<status, submittedAt, messages, flags, evaluations,
                   started, agentIn, agentOut, now>>

\* the row storage.createEvaluation({ applicationId, ...evalResult }) inserts
EvaluationRow(rq) ==
    [applicationId |-> AppId,
     overallScore |-> rq.ai.overallScore,
     decisionQuality |-> rq.ai.decisionQuality,
     communicationClarity |-> rq.ai.communicationClarity,
     structuredProcess |-> rq.ai.structuredProcess,
     riskAwareness |-> rq.ai.riskAwareness,
     professionalJudgment |-> rq.ai.professionalJudgment,
     recommendation |-> rq.ai.recommendation,
     summary |-> rq.ai.summary,
     strengths |-> rq.ai.strengths,
     concerns |-> rq.ai.concerns]

\* every column of evaluations is NOT NULL
EvaluationRowRefused(row) ==
    \E f \in ScoreFields \cup {"recommendation", "summary", "strengths", "concerns"} :
        NotNullViolation(row[f])

\* await storage.createEvaluation({...}), inside the inner try
SubmitCreateEvaluation(r) ==
    /\ req[r].kind = "submit" /\ req[r].pc = "createEvaluation"
    /\ \/ /\ Becomes(r, SubmitCatch([req[r] EXCEPT !.failed = TRUE]))
          /\ UNCHANGED evaluations
       \/ /\ IF \/ UniqueViolation(evaluations, AppId)
                \/ EvaluationRowRefused(EvaluationRow(req[r]))
             THEN /\ Becomes(r, SubmitCatch(req[r]))
                  /\ UNCHANGED evaluations
             ELSE /\ evaluations' = Insert(evaluations, EvaluationRow(req[r]))
                  /\ Becomes(r, [req[r] EXCEPT !.evals = Append(@, Len(evaluations) + 1),
                                               !.pc = "updateApplicationStatus"])
    /\ UNCHANGED <<status, submittedAt, messages, flags, started,
                   agentIn, agentOut, scorerCalls, now>>

\* await storage.updateApplicationStatus(application.id, "evaluated"), inside
\* the inner try, then res.json({ message: "Interview submitted successfully" })
SubmitUpdateStatus(r) ==
    /\ req[r].kind = "submit" /\ req[r].pc = "updateApplicationStatus"
    /\ \/ /\ Becomes(r, SubmitCatch([req[r] EXCEPT !.failed = TRUE]))
          /\ UNCHANGED status
       \/ /\ status' = "evaluated"
          /\ Becomes(r, Respond([req[r] EXCEPT !.writes = Append(@, "evaluated")],
                                200, "Interview submitted successfully"))
    /\ UNCHANGED <<submittedAt, messages, flags, evaluations, started,
                   agentIn, agentOut, scorerCalls, now>>

(***************************************************************************)
(* PATCH /api/applications/:appId/status, behind requireAuth.  What it     *)
(* reads before its one write (the Application's existence, its Job and    *)
(* the Job's owner) never changes, so the handler is one step.  A request  *)
(* that is refused (401, 404, 403, 400) or whose write fails (500) changes *)
(* nothing: it is a stuttering step.                                       *)
(***************************************************************************)
Requesters == {"recruiter-1", "recruiter-2", "anonymous"}

\* requireAuth, the 404 and 403 checks, and  if (!status) return 400
StatusEditAllowed(user, known, newStatus) ==
    /\ user # "anonymous"
    /\ known
    /\ JobFound /\ user = JobOwner
    /\ newStatus # ""

\* const updated = await storage.updateApplicationStatus(appId, status)
UpdateStatusRequest ==
    \E user \in Requesters, known \in BOOLEAN, newStatus \in Statuses \cup {""} :
        /\ StatusEditAllowed(user, known, newStatus)
        /\ status' = newStatus
        /\ answered' = Idle
        /\ UNCHANGED <<submittedAt, messages, flags, evaluations, req,
                       started, agentIn, agentOut, scorerCalls, now>>

(***************************************************************************)
(* The specification of the running service.                               *)
(***************************************************************************)
NoCall == [agent |-> "none"]

\* one turn that was answered before the behaviour starts
EarlierTurn ==
    <<[role |-> "user", content |-> Str("Hello, I am ready.")],
      [role |-> "assistant", content |-> Str("Welcome. How would you start?")]>>

\* storage.createApplication: insert ... values({ ...app, status: "in_progress" });
\* the Application is new, or has had one turn
Init ==
    /\ status = "in_progress"
    /\ submittedAt = 0
    /\ messages \in {<<>>, EarlierTurn}
    /\ flags = <<>>
    /\ evaluations = <<>>
    /\ req = [r \in Slots |-> Idle]
    /\ answered = Idle
    /\ started = 0
    /\ agentIn = NoCall
    /\ agentOut = NoCall
    /\ scorerCalls = 0
    /\ now = 0

Next ==
    \/ \E r \in Slots : StartSend(r)
    \/ \E r \in Slots : SendGetApplication(r)
    \/ \E r \in Slots : SendCreateUserMessage(r)
    \/ \E r \in Slots : SendGetMessages(r)
    \/ \E r \in Slots : SendCreateAssistantMessage(r)
    \/ \E r \in Slots : SendCreateFlag(r)
    \/ \E r \in Slots : StartSubmit(r)
    \/ \E r \in Slots : SubmitGetApplication(r)
    \/ \E r \in Slots : SubmitSubmitApplication(r)
    \/ \E r \in Slots : SubmitGetMessages(r)
    \/ \E r \in Slots : SubmitCreateEvaluation(r)
    \/ \E r \in Slots : SubmitUpdateStatus(r)
    \/ UpdateStatusRequest

Spec == Init /\ [][Next]_vars

\* the candidate-facing requests alone: the behaviours in which no recruiter
\* edits the status
NextCandidate ==
    \/ \E r \in Slots : StartSend(r)
    \/ \E r \in Slots : SendGetApplication(r)
    \/ \E r \in Slots : SendCreateUserMessage(r)
    \/ \E r \in Slots : SendGetMessages(r)
    \/ \E r \in Slots : SendCreateAssistantMessage(r)
    \/ \E r \in Slots : SendCreateFlag(r)
    \/ \E r \in Slots : StartSubmit(r)
    \/ \E r \in Slots : SubmitGetApplication(r)
    \/ \E r \in Slots : SubmitSubmitApplication(r)
    \/ \E r \in Slots : SubmitGetMessages(r)
    \/ \E r \in Slots : SubmitCreateEvaluation(r)
    \/ \E r \in Slots : SubmitUpdateStatus(r)

SpecCandidate == Init /\ [][NextCandidate]_vars

\* a request that passed its closed check while the status was in_progress and
\* has made no record-store call since: a send before its first createMessage,
\* a submit before its submitApplication
PassedCheck ==
    {[Idle EXCEPT !.kind = "send", !.pc = "createUserMessage",
                  !.content = "I would call the client first."],
     [Idle EXCEPT !.kind = "submit", !.pc = "submitApplication"]}

\* the Application right after a submit found no Messages and was answered
\* with success, the requests that had passed their check by then in flight
InitAfterEmptySubmit ==
    /\ status = "submitted"
    /\ submittedAt = 1
    /\ messages = <<>>
    /\ flags = <<>>
    /\ evaluations = <<>>
    /\ req \in [Slots -> {Idle} \cup PassedCheck]
    /\ answered = Respond([Idle EXCEPT !.kind = "submit",
                                       !.writes = <<"submitted">>],
                          200, "Interview submitted successfully")
    /\ started = 0
    /\ agentIn = NoCall
    /\ agentOut = NoCall
    /\ scorerCalls = 0
    /\ now = 0

SpecAfterEmptySubmit == InitAfterEmptySubmit /\ [][NextCandidate]_vars

(***************************************************************************)
(* The two agents on their own: one call of runInterviewAgent or of        *)
(* runEvaluationAgent, for every answer of the completion service over the *)
(* value sets below.                                                       *)
(***************************************************************************)
MessageValues ==
    {Undefined, Null, False, True, Obj, Num(0), Num(7), Str(""),
     Str("How would you prioritise the backlog?")}
FlagsValues ==
    {Undefined, Null, Obj, Str("not-an-array"), Num(0), Arr(<<>>),
     Arr(<<GoodFlag>>), Arr(<<GoodFlag, NullItem>>)}
StageValues ==
    {Undefined, Null, Obj, Num(1), Str(""), Str("bogus"), Str("Closing")}
        \cup {Str(t) : t \in StageTags}

ScoreValues ==
    {Undefined, Null, True, False, Obj, Arr(<<>>), Arr(<<Str("a")>>),
     Str(""), Str("85"), Str("250"), Str("high"),
     Num(-5), Num(0), Num(50), Num(100), Num(150),
     Tenths(-6), Tenths(-5), Tenths(1), Tenths(724), Tenths(725), Tenths(995),
     Tenths(1004)}
RecommendationValues ==
    {Undefined, Null, Obj, Num(1), Str(""), Str("definitely"), Str("Hire")}
        \cup {Str(t) : t \in RecommendationTags}
SummaryValues == {Undefined, Str(""), Str("A structured, careful candidate.")}
ListValues == {Undefined, Str("none"), Arr(<<>>), Arr(<<Str("clear priorities")>>)}

ConductorBodies ==
    {[assistant_message |-> m, detected_flags |-> f, stage |-> g] :
        m \in MessageValues, f \in FlagsValues, g \in StageValues}

\* one score field takes each value in turn, the five others a plain score
ScorerBodies ==
    {[overallScore |-> IF k = "overallScore" THEN v ELSE Num(70),
      decisionQuality |-> IF k = "decisionQuality" THEN v ELSE Num(70),
      communicationClarity |-> IF k = "communicationClarity" THEN v ELSE Num(70),
      structuredProcess |-> IF k = "structuredProcess" THEN v ELSE Num(70),
      riskAwareness |-> IF k = "riskAwareness" THEN v ELSE Num(70),
      professionalJudgment |-> IF k = "professionalJudgment" THEN v ELSE Num(70),
      recommendation |-> rec, summary |-> sm, strengths |-> l, concerns |-> l] :
        k \in ScoreFields, v \in ScoreValues, rec \in RecommendationValues,
        sm \in SummaryValues, l \in ListValues}

\* a transcript of k answered turns and the candidate's next Message
Transcript(k) ==
    [i \in 1..(2 * k + 1) |->
        IF i % 2 = 1 THEN [role |-> "user", content |-> Str("I would call the client first.")]
        ELSE [role |-> "assistant", content |-> Str("Tell me more.")]]

\* the Jobs POST /api/jobs can create: insertJobSchema takes any integer
JobsWithNumQuestions ==
    {[TheJob EXCEPT !.numQuestions = n] : n \in 0..MaxQuestions}

Completions(bodies) ==
    {Throws, Unparseable, NonObject} \cup {Parsed(b) : b \in bodies}

InitAgents ==
    /\ status = "in_progress"
    /\ submittedAt = 0
    /\ messages = <<>>
    /\ flags = <<>>
    /\ evaluations = <<>>
    /\ req = [r \in Slots |-> Idle]
    /\ answered = Idle
    /\ started = 0
    /\ scorerCalls = 0
    /\ now = 0
    /\ agentOut = NoCall
    /\ \/ \E c \in Completions(ConductorBodies), k \in 0..1 :
             agentIn = [agent |-> "interview", completion |-> c,
                        history |-> Transcript(k)]
       \/ \E c \in Completions(ScorerBodies) :
             agentIn = [agent |-> "evaluation", completion |-> c]
       \/ \E job \in JobsWithNumQuestions, k \in 0..MaxTurns :
             agentIn = [agent |-> "prompt", job |-> job, history |-> Transcript(k)]

RunInterviewAgent ==
    /\ agentIn.agent = "interview" /\ agentOut = NoCall
    /\ agentOut' = [agent |-> "interview", result |-> runInterviewAgent(agentIn.completion)]
    /\ UNCHANGED <<status, submittedAt, messages, flags, evaluations, req,
                   answered, started, agentIn, scorerCalls, now>>

RunEvaluationAgent ==
    /\ agentIn.agent = "evaluation" /\ agentOut = NoCall
    /\ agentOut' = [agent |-> "evaluation", result |-> runEvaluationAgent(agentIn.completion)]
    /\ UNCHANGED <<status, submittedAt, messages, flags, evaluations, req,
                   answered, started, agentIn, scorerCalls, now>>

\* the prompt runInterviewAgent builds before it calls the completion service
BuildPrompt ==
    /\ agentIn.agent = "prompt" /\ agentOut = NoCall
    /\ agentOut' = [agent |-> "prompt",
                    result |-> PromptParams(agentIn.job, agentIn.history)]
    /\ UNCHANGED <<status, submittedAt, messages, flags, evaluations, req,
                   answered, started, agentIn, scorerCalls, now>>

NextAgents == RunInterviewAgent \/ RunEvaluationAgent \/ BuildPrompt

SpecAgents == InitAgents /\ [][NextAgents]_vars

(***************************************************************************)
(* The handlers that are one step each, with their responses: intake, the  *)
(* recruiter's reads and status edit, and the listing of the Messages.     *)
(* Here the Application does not exist before intake creates it, and a     *)
(* Message row has the columns the database fills in: its id (the order of *)
(* creation) and created_at, the instant of the database clock.            *)
(***************************************************************************)
\* the status of an Application that has no row yet
NoApplication == "none"

\* the body of a response that is only { message }
NoData == <<>>

\* a and b as one object, b's keys winning: { ...a, ...b }
Merge(a, b) ==
    [k \in DOMAIN a \cup DOMAIN b |-> IF k \in DOMAIN b THEN b[k] ELSE a[k]]

\* the response of a one-step handler
Reply(kind, request, code, body) ==
    [kind |-> kind, request |-> request, code |-> code, body |-> body]

\* requireAuth (401), the row looked up (404), job.ownerId !== req.user.id (403)
AccessAnyRecruiter(user, found) ==
    IF user = "anonymous" THEN 401 ELSE IF ~found THEN 404 ELSE 200
Access(user, found) ==
    IF user = "anonymous" THEN 401
    ELSE IF ~found THEN 404
    ELSE IF TheJob.ownerId # user THEN 403
    ELSE 200

\* the Application as a response carries it
ApplicationRow == [id |-> AppId, status |-> status, submittedAt |-> submittedAt]

\* storage.getEvaluationByApplication(id) || null
EvaluationOrNull == IF evaluations = <<>> THEN Null ELSE evaluations[1]

\* select ... from messages where application_id = ... order by created_at:
\* the rows in an order that created_at allows; rows of one instant come in
\* any order
getMessagesOrderings(rows) ==
    {[k \in 1..Len(rows) |-> rows[p[k]]] :
        p \in {q \in Permutations(1..Len(rows)) :
                 \A i, j \in 1..Len(rows) :
                    i < j => rows[q[i]].createdAt <= rows[q[j]].createdAt}}

\* GET /api/jobs: the Jobs whose owner is the requester
GetJobs ==
    \E user \in Requesters :
        /\ answered' = IF user = "anonymous"
                       THEN Reply("jobs", [user |-> user], 401, NoData)
                       ELSE Reply("jobs", [user |-> user], 200,
                                  [jobs |-> IF TheJob.ownerId = user THEN <<TheJob>> ELSE <<>>])
        /\ UNCHANGED <<status, submittedAt, messages, flags, evaluations, req,
                       started, agentIn, agentOut, scorerCalls, now>>

\* GET /api/jobs/:jobId
GetJob ==
    \E user \in Requesters, known \in BOOLEAN :
        /\ LET code == Access(user, known)
           IN  answered' = Reply("job", [user |-> user, known |-> known], code,
                                 IF code = 200 THEN [job |-> TheJob] ELSE NoData)
        /\ UNCHANGED <<status, submittedAt, messages, flags, evaluations, req,
                       started, agentIn, agentOut, scorerCalls, now>>

\* GET /api/jobs/:jobId/applications
GetJobApplications ==
    \E user \in Requesters, known \in BOOLEAN :
        /\ LET code == Access(user, known)
               apps == IF status = NoApplication THEN <<>>
                       ELSE <<Merge(ApplicationRow, [evaluation |-> EvaluationOrNull])>>
           IN  answered' = Reply("applications", [user |-> user, known |-> known], code,
                                 IF code = 200 THEN [applications |-> apps] ELSE NoData)
        /\ UNCHANGED <<status, submittedAt, messages, flags, evaluations, req,
                       started, agentIn, agentOut, scorerCalls, now>>

\* GET /api/applications/:appId/report
GetReport ==
    \E user \in Requesters, known \in BOOLEAN :
        /\ LET code == Access(user, known /\ status # NoApplication)
           IN  \E listing \in getMessagesOrderings(messages) :
                  answered' = Reply("report", [user |-> user, known |-> known], code,
                                    IF code = 200
                                    THEN [application |-> ApplicationRow,
                                          job |-> TheJob,
                                          evaluation |-> EvaluationOrNull,
                                          flags |-> flags,
                                          messages |-> listing]
                                    ELSE NoData)
        /\ UNCHANGED <<status, submittedAt, messages, flags, evaluations, req,
                       started, agentIn, agentOut, scorerCalls, now>>

\* PATCH /api/applications/:appId/status: the status code of the response
PatchCodeNoOwnerCheck(user, found, newStatus) ==
    IF user = "anonymous" THEN 401
    ELSE IF ~found THEN 404
    ELSE IF newStatus = "" THEN 400
    ELSE 200
PatchCode(user, found, newStatus) ==
    IF Access(user, found) # 200 THEN Access(user, found)
    ELSE IF newStatus = "" THEN 400
    ELSE 200

\* PATCH /api/applications/:appId/status, with its response; the request may
\* carry any text as status
UpdateStatus ==
    \E user \in Requesters, known \in BOOLEAN,
       newStatus \in Statuses \cup {"", "on_hold"} :
        LET code == PatchCode(user, known /\ status # NoApplication, newStatus)
            request == [user |-> user, known |-> known, status |-> newStatus,
                        before |-> status]
        IN  /\ status' = IF code = 200 THEN newStatus ELSE status
            /\ answered' = Reply("patch", request, code,
                                 IF code = 200
                                 THEN [ApplicationRow EXCEPT !.status = newStatus]
                                 ELSE NoData)
            /\ UNCHANGED <<submittedAt, messages, flags, evaluations, req,
                           started, agentIn, agentOut, scorerCalls, now>>

\* storage.createMessage(msg): insert into messages, created_at defaulting to
\* now(); the roles alternate as the turns make them
CreateMessage ==
    /\ status # NoApplication
    /\ Len(messages) < MaxMessages
    /\ messages' = Insert(messages,
                          [id |-> Len(messages) + 1,
                           role |-> IF Len(messages) % 2 = 0 THEN "user" ELSE "assistant",
                           content |-> Str("Tell me more."),
                           createdAt |-> now])
    /\ answered' = Idle
    /\ UNCHANGED <<status, submittedAt, flags, evaluations, req,
                   started, agentIn, agentOut, scorerCalls, now>>

\* the database clock advances
Tick ==
    /\ now < MaxClock
    /\ now' = now + 1
    /\ answered' = Idle
    /\ UNCHANGED <<status, submittedAt, messages, flags, evaluations, req,
                   started, agentIn, agentOut, scorerCalls>>

\* GET /api/public/applications/:appId/messages
ListMessages ==
    \E known \in BOOLEAN :
        /\ IF known /\ status # NoApplication
           THEN \E listing \in getMessagesOrderings(messages) :
                   answered' = Reply("messages", [known |-> known], 200, listing)
           ELSE answered' = Reply("messages", [known |-> known], 404, NoData)
        /\ UNCHANGED <<status, submittedAt, messages, flags, evaluations, req,
                       started, agentIn, agentOut, scorerCalls, now>>

\* storage.getJobByToken(token): the rows of jobs with that job_token
ActiveToken == "token-of-the-job"
ClosedToken == "token-of-a-closed-job"
Tokens == {ActiveToken, ClosedToken, "no-such-token"}
getJobByToken(token) ==
    CASE token = ActiveToken -> <<TheJob>>
      [] token = ClosedToken -> <<[TheJob EXCEPT !.isActive = FALSE]>>
      [] OTHER -> <<>>

\* what the body of an intake request may carry besides jobToken: the
\* candidate's name (or not) and email, and any of id, status, submittedAt
IntakeBodies ==
    {Merge(who, [k \in extra |-> [id |-> "chosen-id", status |-> "evaluated",
                                  submittedAt |-> 7][k]]) :
        who \in {[candidateName |-> "Ada", candidateEmail |-> "ada@example.org"],
                 [candidateEmail |-> "ada@example.org"]},
        extra \in SUBSET {"id", "status", "submittedAt"}}

\* insertApplicationSchema = createInsertSchema(applications).omit({...}):
\* parse keeps the keys of the schema and throws when a required one is missing
ApplicationColumns ==
    {"id", "jobId", "status", "candidateName", "candidateEmail", "startedAt",
     "submittedAt"}
InsertApplicationOmitsOnlyId == {"id"}
InsertApplicationOmits == {"id", "status", "startedAt", "submittedAt"}
InsertApplicationRequired == {"jobId", "candidateName", "candidateEmail"}
InsertApplicationParse(data) ==
    [k \in (ApplicationColumns \ InsertApplicationOmits) \cap DOMAIN data |-> data[k]]
InsertApplicationValid(data) == InsertApplicationRequired \subseteq DOMAIN data

\* the columns of applications that have a default (submitted_at: NULL, here 0)
ApplicationDefaults == [id |-> AppId, status |-> "pending", submittedAt |-> 0]

\* storage.createApplication(app): insert ... values({ ...app, status: "in_progress" })
createApplication(app) ==
    Merge(ApplicationDefaults, Merge(app, [status |-> "in_progress"]))

\* POST /api/public/applications, for the Application of this model
Intake ==
    /\ status = NoApplication
    /\ \E jobToken \in Tokens, candidateData \in IntakeBodies :
          LET job == getJobByToken(jobToken)
              request == [jobToken |-> jobToken, candidateData |-> candidateData]
              appData == Merge(candidateData,
                               [jobId |-> "job-1", status |-> "in_progress"])
              created == createApplication(InsertApplicationParse(appData))
          IN  IF job = <<>> \/ ~job[1].isActive
              THEN /\ answered' = Reply("intake", request, 404, NoData)
                   /\ UNCHANGED <<status, submittedAt>>
              ELSE IF ~InsertApplicationValid(appData)
              THEN /\ answered' = Reply("intake", request, 400, NoData)
                   /\ UNCHANGED <<status, submittedAt>>
              ELSE /\ status' = created.status
                   /\ submittedAt' = created.submittedAt
                   /\ answered' = Reply("intake", request, 201, created)
    /\ UNCHANGED <<messages, flags, evaluations, req, started, agentIn, agentOut,
                   scorerCalls, now>>

\* what the body of POST /api/jobs may carry: a description without a title,
\* or a title and description and, for numQuestions and timeLimitMinutes,
\* nothing, an integer inside or outside the documented range, or no integer
JobBodies ==
    {[description |-> Str("Month-end close")]} \cup
    {Merge([title |-> Str("Analyst"), description |-> Str("Month-end close")],
           Merge(nq, tl)) :
        nq \in {[k \in {} |-> Undefined]} \cup
               {[numQuestions |-> v] : v \in {Num(0), Num(12), Str("many")}},
        tl \in {[k \in {} |-> Undefined]} \cup
               {[timeLimitMinutes |-> Num(120)]}}

\* insertJobSchema = createInsertSchema(jobs).omit({ id, createdAt, isActive }):
\* the notNull columns without a default are required, the integer columns
\* take any integer
InsertJobRequired == {"ownerId", "title", "description", "jobToken"}
InsertJobIntegers == {"timeLimitMinutes", "numQuestions"}
InsertJobValid(data) ==
    /\ InsertJobRequired \subseteq DOMAIN data
    /\ \A k \in InsertJobIntegers \cap DOMAIN data : IsInteger(data[k])

\* the columns of jobs that have a default
JobDefaults == [numQuestions |-> 8, timeLimitMinutes |-> 15, isActive |-> TRUE]

\* storage.createJob(job): insert ... values(job).returning()
createJob(job) ==
    Merge(JobDefaults,
          [k \in (InsertJobIntegers \cap DOMAIN job) \cup {"ownerId"} |->
              IF k = "ownerId" THEN job[k] ELSE job[k].n \div 10])

\* POST /api/jobs
CreateJob ==
    /\ \E user \in Requesters, body \in JobBodies :
          LET jobData == Merge(body, [ownerId |-> user,
                                      jobToken |-> Str("generated-token")])
          IN  answered' =
                 IF user = "anonymous" THEN Reply("createJob", body, 401, NoData)
                 ELSE IF ~InsertJobValid(jobData)
                 THEN Reply("createJob", body, 400, NoData)
                 ELSE Reply("createJob", body, 201, createJob(jobData))
    /\ UNCHANGED <<status, submittedAt, messages, flags, evaluations, req,
                   started, agentIn, agentOut, scorerCalls, now>>

InitApi ==
    /\ status = NoApplication
    /\ submittedAt = 0
    /\ messages = <<>>
    /\ flags = <<>>
    /\ evaluations = <<>>
    /\ req = [r \in Slots |-> Idle]
    /\ answered = Idle
    /\ started = 0
    /\ agentIn = NoCall
    /\ agentOut = NoCall
    /\ scorerCalls = 0
    /\ now = 0

NextApi ==
    \/ Intake
    \/ UpdateStatus
    \/ GetJobs
    \/ GetJob
    \/ GetJobApplications
    \/ GetReport
    \/ CreateMessage
    \/ Tick
    \/ ListMessages
    \/ CreateJob

SpecApi == InitApi /\ [][NextApi]_vars

(***************************************************************************)
(* Properties of the send and submit handlers (specification Spec).        *)
(***************************************************************************)
AlreadySubmitted == [code |-> 400, message |-> "Interview already submitted"]
SubmittedOk == [code |-> 200, message |-> "Interview submitted successfully"]

\* slot r takes a step of a request of the given kind that stands at pc
StepOf(r, kind, pc) ==
    /\ req[r].kind = kind /\ req[r].pc = pc
    /\ req'[r] # req[r]

\* C1: a send request for a known Application, whose read of the Application
\* succeeds, is turned away with "Interview already submitted" exactly when
\* the status it reads is submitted or evaluated; turned away, it has created
\* no Message and no Flag and the tables are as they were.
C1_SendGate ==
    [][\A r \in Slots :
          (StepOf(r, "send", "getApplication") /\ req[r].known /\ ~answered'.failed)
          => LET rejected == answered'.kind = "send" /\ answered'.resp = AlreadySubmitted
             IN  /\ rejected <=> status \in {"submitted", "evaluated"}
                 /\ rejected => /\ req'[r] = Idle
                                /\ answered'.msgs = <<>> /\ answered'.nflags = 0
                                /\ messages' = messages /\ flags' = flags
                 /\ ~rejected => \/ req'[r].pc = "createUserMessage"
                                 \/ answered'.resp.message = "Message content is required"
      ]_vars

\* a send that read evaluated has just been turned away with a client error
C1_Witness ==
    /\ answered.kind = "send" /\ answered.resp = AlreadySubmitted
    /\ answered.readStatus = "evaluated" /\ status = "evaluated"
    /\ answered.msgs = <<>> /\ answered.nflags = 0

\* C2: no step of a submit request changes the status of an Application that
\* is evaluated, and a submit request that reads submitted or evaluated is
\* turned away with a client error and changes nothing.
C2_SubmitNeverLeavesEvaluated ==
    [][\A r \in Slots :
          (req[r].kind = "submit" /\ req'[r] # req[r])
          => /\ status = "evaluated" => status' = "evaluated"
             /\ (req[r].pc = "getApplication" /\ req[r].known /\ ~answered'.failed
                    /\ status \in {"submitted", "evaluated"})
                => /\ answered'.resp = AlreadySubmitted
                   /\ UNCHANGED <<status, submittedAt, messages, flags, evaluations>>
      ]_vars

\* C3: the evaluations table never holds two rows of one Application.
C3_OneEvaluation ==
    \A i, j \in 1..Len(evaluations) :
        evaluations[i].applicationId = evaluations[j].applicationId => i = j

\* a second insert for the Application has just been refused: the submit that
\* tried it ran its inner catch without any record-store fault
C3_Witness ==
    /\ answered.kind = "submit" /\ answered.evalThrew /\ ~answered.failed
    /\ Len(evaluations) = 1

\* C4: a submit request that was accepted (not turned away with 400 or 404),
\* found a transcript, and on which no record-store call failed or was
\* refused, is answered with success; it wrote submitted (with a timestamp)
\* and then evaluated, in that order and nothing else, persisted exactly one
\* Evaluation, and leaves the Application evaluated with its one Evaluation.
C4_SubmitRunsToEvaluated ==
    (/\ answered.kind = "submit" /\ answered.resp.code \notin {400, 404}
     /\ ~answered.failed /\ ~answered.evalThrew
     /\ answered.histLen > 0)
    => /\ answered.resp = SubmittedOk
       /\ answered.writes = <<"submitted", "evaluated">>
       /\ submittedAt > 0
       /\ Len(answered.evals) = 1
       /\ Len(evaluations) = 1
       /\ status = "evaluated"

\* a submit alone on an Application with a transcript has run to the end
C4_Witness ==
    /\ answered.kind = "submit" /\ answered.resp = SubmittedOk
    /\ answered.histLen > 0 /\ ~answered.evalThrew
    /\ started = 1 /\ status = "evaluated" /\ Len(evaluations) = 1

\* C5: the step on which the scoring block of a submit fails (the insert of
\* the Evaluation or the write of evaluated is refused or fails) answers the
\* request with success and leaves status and timestamp as they were: the
\* request has written submitted, with a timestamp, and never evaluated.
C5_ScoringFailureSwallowed ==
    [][\A r \in Slots :
          (/\ req[r].kind = "submit"
           /\ req[r].pc \in {"createEvaluation", "updateApplicationStatus"}
           /\ req'[r] = Idle /\ answered'.evalThrew)
          => /\ answered'.resp = SubmittedOk
             /\ answered'.writes = <<"submitted">>
             /\ status' = status /\ submittedAt' = submittedAt
             /\ submittedAt > 0
      ]_vars

\* the insert of the Evaluation failed on a submit that is alone; the request
\* was answered with success and the Application is submitted, with a timestamp
C5_Witness ==
    /\ answered.kind = "submit" /\ answered.evalThrew /\ answered.failed
    /\ answered.evals = <<>>
    /\ answered.resp = SubmittedOk
    /\ started = 1 /\ status = "submitted" /\ submittedAt > 0

\* C6: when the Conductor's completion throws or is no JSON object, the
\* result is the canned message, no flags and stage questioning; the
\* candidate's Message stays; and unless a record-store call fails the
\* request is answered 200 with the canned text persisted after it as the
\* assistant Message, and no Flag.
C6_ConductorFallback ==
    /\ \A r \in Slots :
          (req[r].kind = "send" /\ req[r].fellBack)
          => /\ req[r].ai.assistant_message = Str(InterviewFallbackMsg)
             /\ InterviewFallbackMsg # ""
             /\ req[r].ai.detected_flags = Arr(<<>>)
             /\ req[r].ai.stage = Str("questioning")
             /\ req[r].pc = "createAssistantMessage"
             /\ Len(req[r].msgs) = 1
             /\ messages[req[r].msgs[1]].role = "user"
    /\ (answered.kind = "send" /\ answered.fellBack)
          => /\ Len(answered.msgs) >= 1
             /\ messages[answered.msgs[1]].role = "user"
             /\ answered.nflags = 0
             /\ answered.resp.code = 500 => answered.failed
             /\ ~answered.failed
                => /\ answered.resp.code = 200
                   /\ Len(answered.msgs) = 2
                   /\ answered.msgs[1] < answered.msgs[2]
                   /\ messages[answered.msgs[2]] =
                         [role |-> "assistant", content |-> Str(InterviewFallbackMsg)]

\* a send whose Conductor fell back has been answered 200
C6_Witness ==
    /\ answered.kind = "send" /\ answered.fellBack /\ answered.resp.code = 200
    /\ Len(answered.msgs) = 2
    /\ messages[answered.msgs[2]].content = Str(InterviewFallbackMsg)

\* a number that is an integer from 0 to 100
IsScore(v) == IsInteger(v) /\ 0 <= v.n /\ v.n <= 1000

\* C7: every score of every persisted Evaluation is an integer from 0 to 100.
C7_ScoresAreIntegersInRange ==
    \A i \in 1..Len(evaluations) : \A f \in ScoreFields : IsScore(evaluations[i][f])

\* the Evaluation the Scorer's catch block describes
IsFallbackEvaluation(e) ==
    /\ \A f \in ScoreFields : e[f] = Num(50)
    /\ e.recommendation = Str("maybe")
    /\ IsArray(e.strengths) /\ Len(e.strengths.a) = 1
    /\ IsArray(e.concerns) /\ Len(e.concerns.a) = 1
    /\ e.summary = Str("The evaluation could not be fully completed due to a processing error. A manual review is recommended.")

\* C8: when the Scorer's completion throws or is no JSON object, the result
\* is all six scores 50, recommendation maybe, one strength, one concern and
\* the summary that recommends a manual review; the submit goes on and
\* persists exactly that as the Evaluation.
C8_ScorerFallback ==
    \A r \in Slots :
        (req[r].kind = "submit" /\ req[r].fellBack)
        => /\ req[r].pc \in {"createEvaluation", "updateApplicationStatus"}
           /\ IsFallbackEvaluation(req[r].ai)
           /\ req[r].pc = "updateApplicationStatus"
              => /\ Len(req[r].evals) = 1
                 /\ IsFallbackEvaluation(evaluations[req[r].evals[1]])
                 /\ evaluations[req[r].evals[1]].applicationId = AppId

\* a submit whose Scorer fell back has persisted its Evaluation
C8_Witness ==
    \E r \in Slots :
        /\ req[r].kind = "submit" /\ req[r].fellBack
        /\ req[r].pc = "updateApplicationStatus"
        /\ Len(evaluations) = 1

\* C11: no type-invalid model value reaches storage: every persisted
\* assistant Message has a non-empty string as content, every persisted Flag
\* has strings as severity, category and excerpt, every persisted Evaluation
\* has a string summary and lists of strings as strengths and concerns; and
\* no send fails, without a record-store fault, after it has written a row.
C11_NoInvalidValueStored ==
    /\ \A i \in 1..Len(messages) :
          messages[i].role = "assistant"
          => IsString(messages[i].content) /\ messages[i].content.s # ""
    /\ \A i \in 1..Len(flags) :
          /\ IsString(flags[i].severity)
          /\ IsString(flags[i].category)
          /\ IsString(flags[i].excerpt)
    /\ \A i \in 1..Len(evaluations) :
          /\ IsString(evaluations[i].summary)
          /\ \A f \in {"strengths", "concerns"} :
                /\ IsArray(evaluations[i][f])
                /\ \A k \in 1..Len(evaluations[i][f].a) : IsString(evaluations[i][f].a[k])
    /\ (answered.kind = "send" /\ answered.resp.code = 500 /\ ~answered.failed)
          => answered.msgs = <<>> /\ answered.nflags = 0

\* C12: on the step on which a turn appends its assistant Message, the
\* questionCount its prompt was built with equals the number of assistant
\* Messages then in the transcript, which are those that precede the new one.
C12_QuestionCountMatchesTranscript ==
    [][\A r \in Slots :
          (StepOf(r, "send", "createAssistantMessage") /\ Len(messages') = Len(messages) + 1)
          => PromptParams(TheJob, req[r].hist).questionCount = questionCount(messages)
      ]_vars

\* a is the beginning of b, row for row
IsPrefix(a, b) ==
    /\ Len(a) <= Len(b)
    /\ \A i \in 1..Len(a) : b[i] = a[i]

\* C15: the Scorer is called at most once for the Application, and once when
\* a submit that found a transcript has been answered with success.
C15_ScorerCalledOnce ==
    /\ scorerCalls <= 1
    /\ (answered.kind = "submit" /\ answered.resp = SubmittedOk /\ answered.histLen > 0)
       => scorerCalls = 1

\* C16: no step changes or removes a Message, a Flag or an Evaluation that
\* exists: each table after the step begins with the table before it.
C16_RowsOnlyAdded ==
    [][/\ IsPrefix(messages, messages')
       /\ IsPrefix(flags, flags')
       /\ IsPrefix(evaluations, evaluations')]_vars

\* a turn has added two Messages and a Flag to a transcript that had a turn,
\* and a submit has added the Evaluation; the first turn is as it was
C16_Witness ==
    /\ Len(messages) = 4 /\ Len(flags) = 1 /\ Len(evaluations) = 1
    /\ messages[1] = EarlierTurn[1] /\ messages[2] = EarlierTurn[2]

\* C20: the response of a successful turn carries the assistant Message the
\* turn created, the stage, and the Job's numQuestions and timeLimitMinutes.
C20_TurnResponseContents ==
    (answered.kind = "send" /\ answered.resp.code = 200)
    => /\ {"message", "stage", "numQuestions", "timeLimitMinutes"}
             \subseteq DOMAIN answered.body
       /\ answered.body.message = messages[answered.msgs[2]]
       /\ answered.body.numQuestions = TheJob.numQuestions
       /\ answered.body.timeLimitMinutes = TheJob.timeLimitMinutes

(***************************************************************************)
(* Properties of the two agents (specification SpecAgents).                *)
(***************************************************************************)
\* C9: for a completion that is a JSON object, runInterviewAgent returns a
\* message that is not empty (the clarifying prompt when the model's is
\* empty or missing, the model's otherwise), flags that are a list (the
\* empty list when the model's are no list, the model's otherwise) and a
\* stage that is one of the four tags (questioning when the model's is none
\* of them, the model's otherwise).  Empty is what JavaScript takes as false.
C9_ConductorNormalised ==
    (agentOut.agent = "interview" /\ agentIn.completion.kind = "object")
    => LET b == agentIn.completion.body
           x == agentOut.result
       IN  /\ Truthy(x.assistant_message)
           /\ x.assistant_message # Str("")
           /\ x.assistant_message =
                 IF b.assistant_message \in {Undefined, Null, Str(""), False, Num(0)}
                 THEN Str("Could you elaborate on that?")
                 ELSE b.assistant_message
           /\ IsArray(x.detected_flags)
           /\ x.detected_flags =
                 IF IsArray(b.detected_flags) THEN b.detected_flags ELSE Arr(<<>>)
           /\ IsString(x.stage) /\ x.stage.s \in StageTags
           /\ x.stage =
                 IF IsString(b.stage) /\ b.stage.s \in StageTags
                 THEN b.stage ELSE Str("questioning")

\* the three fields were all invalid and have all been replaced
C9_Witness ==
    /\ agentOut.agent = "interview" /\ agentIn.completion.kind = "object"
    /\ agentIn.completion.body.assistant_message = Str("")
    /\ ~IsArray(agentIn.completion.body.detected_flags)
    /\ agentIn.completion.body.stage = Str("bogus")
    /\ agentOut.result = [assistant_message |-> Str("Could you elaborate on that?"),
                          detected_flags |-> Arr(<<>>),
                          stage |-> Str("questioning")]

\* C10: the recommendation runEvaluationAgent returns is always one of the
\* five tags, a missing or unrecognized one having been replaced by maybe.
C10_RecommendationIsATag ==
    agentOut.agent = "evaluation"
    => /\ IsString(agentOut.result.recommendation)
       /\ agentOut.result.recommendation.s \in RecommendationTags
       /\ agentIn.completion.kind = "object"
          => agentOut.result.recommendation =
                IF /\ IsString(agentIn.completion.body.recommendation)
                   /\ agentIn.completion.body.recommendation.s \in RecommendationTags
                THEN agentIn.completion.body.recommendation
                ELSE Str("maybe")

\* C13: the prompt of a turn carries as questionCount the number of prior
\* assistant Messages and as threshold the Job's numQuestions minus one, so
\* the closing condition is true exactly when the number of prior assistant
\* Messages is at least the Job's numQuestions minus one.
C13_ClosingCondition ==
    agentOut.agent = "prompt"
    => LET prior == Len(SelectSeq(agentIn.history, LAMBDA m : m.role = "assistant"))
       IN  /\ agentOut.result.questionCount = prior
           /\ agentOut.result.closingThreshold = agentIn.job.numQuestions - 1
           /\ ClosingEligible(agentOut.result) <=> prior >= agentIn.job.numQuestions - 1

(***************************************************************************)
(* Properties of the one-step handlers (specification SpecApi).            *)
(***************************************************************************)
\* C14: listing the Messages of the Application returns exactly the rows
\* created for it, in the order of their creation.
C14_ListingInCreationOrder ==
    (answered.kind = "messages" /\ answered.code = 200)
    => answered.body = messages

\* C17: a status edit changes the status only when the requester is the
\* owner of the Job: without authentication it is answered 401, by another
\* recruiter 403 (404 when the Application is unknown), and the status stays;
\* by the owner, for an Application that exists and with a non-empty value,
\* it is answered 200 and the status is the value sent, whatever it was.
C17_StatusEditOnlyByOwner ==
    answered.kind = "patch"
    => LET q == answered.request
       IN  /\ q.user = "anonymous" => answered.code = 401
           /\ q.user # JobOwner
              => /\ answered.code \in {401, 403, 404}
                 /\ status = q.before
                 /\ answered.body = NoData
           /\ status # q.before => q.user = JobOwner /\ answered.code = 200
           /\ (q.user = JobOwner /\ q.known /\ q.before # NoApplication /\ q.status # "")
              => /\ answered.code = 200
                 /\ status = q.status
                 /\ answered.body.status = q.status

\* the owner has overwritten evaluated with a value that is no status of the
\* life cycle
C17_Witness ==
    /\ answered.kind = "patch" /\ answered.code = 200
    /\ answered.request.user = JobOwner
    /\ answered.request.before = "evaluated"
    /\ status = "on_hold"

\* C18: a recruiter-facing read answers with data of the Job, its
\* Application, Evaluation, Flags or Messages only when the requester owns
\* the Job; for any other requester the response carries none of it, whatever
\* the tables hold.
C18_ReadsOnlyByOwner ==
    /\ answered.kind \in {"job", "applications", "report"}
       => LET q == answered.request
          IN  /\ answered.code = 200 => q.user = JobOwner
              /\ q.user # JobOwner
                 => answered.body = NoData /\ answered.code \in {401, 403, 404}
              /\ (answered.kind = "job" /\ q.user = JobOwner /\ q.known)
                 => answered.body = [job |-> TheJob]
              /\ (answered.kind = "report" /\ answered.code = 200)
                 => /\ answered.body.application.status = status
                    /\ Len(answered.body.messages) = Len(messages)
    /\ answered.kind = "jobs"
       => /\ answered.request.user = JobOwner => answered.body = [jobs |-> <<TheJob>>]
          /\ answered.request.user = "recruiter-2" => answered.body = [jobs |-> <<>>]
          /\ answered.request.user = "anonymous"
             => answered.body = NoData /\ answered.code = 401

\* another recruiter has asked for the report of an Application that exists
\* and has Messages, and was refused
C18_Witness ==
    /\ answered.kind = "report"
    /\ answered.request.user = "recruiter-2" /\ answered.request.known
    /\ status # NoApplication /\ Len(messages) > 0
    /\ answered.code = 403 /\ answered.body = NoData

\* C19: intake for the token of the active Job creates the Application with
\* status in_progress, no submission timestamp and an id of the database's
\* choosing, whatever id, status or submittedAt the body carries; intake for
\* an unknown token or the token of an inactive Job is answered 404 and
\* creates no Application.
C19_IntakeCreatesInProgress ==
    answered.kind = "intake"
    => LET q == answered.request
       IN  /\ q.jobToken # ActiveToken
              => /\ answered.code = 404 /\ answered.body = NoData
                 /\ status = NoApplication
           /\ (q.jobToken = ActiveToken /\ "candidateName" \in DOMAIN q.candidateData)
              => answered.code = 201
           /\ answered.code # 201 => status = NoApplication /\ submittedAt = 0
           /\ answered.code = 201
              => /\ status = "in_progress" /\ submittedAt = 0
                 /\ answered.body.status = "in_progress"
                 /\ answered.body.submittedAt = 0
                 /\ answered.body.id = AppId

\* an intake whose body carried an id, a status and a submittedAt has created
\* the Application
C19_Witness ==
    /\ answered.kind = "intake" /\ answered.code = 201
    /\ {"id", "status", "submittedAt"} \subseteq DOMAIN answered.request.candidateData
    /\ answered.request.candidateData.status = "evaluated"
    /\ status = "in_progress"

\* C21: every Job that POST /api/jobs stores has its question budget within
\* 3..12 and its time limit within 10..30 minutes, whatever body an
\* authenticated recruiter sends.
C21_StoredJobWithinBounds ==
    answered.kind = "createJob" /\ answered.code = 201
    => /\ answered.body.numQuestions \in 3..12
       /\ answered.body.timeLimitMinutes \in 10..30

(***************************************************************************)
(* Closed Applications, the shape of the transcript and failed turns       *)
(* (specification Spec).                                                   *)
(***************************************************************************)
\* C22: once the status is submitted or evaluated no step appends a Message
\* or a Flag, in every interleaving of send and submit: a send that passed
\* its closed check before the submit writes nothing after it.
C22_NoWriteAfterClose ==
    [][(status \in {"submitted", "evaluated"})
          => (messages' = messages /\ flags' = flags)]_vars

\* the transcript is candidate, interviewer, candidate, ... from the first row
Alternates(rows) ==
    \A i \in 1..Len(rows) :
        rows[i].role = IF i % 2 = 1 THEN "user" ELSE "assistant"

\* C23: in every reachable state the transcript alternates candidate and
\* interviewer Messages starting with a candidate Message (so the candidate
\* Messages number as many as the interviewer Messages, or one more).
C23_TranscriptAlternates == Alternates(messages)

\* C24: once the status is accepted or rejected, no step of a send or a
\* submit changes it.
C24_AcceptedRejectedTerminal ==
    [][(status \in {"accepted", "rejected"} /\ req' # req) => (status' = status)]_vars

\* C30: a send answered with an error (400, 404 or 500) has created no
\* Message and no Flag.
C30_FailedSendWritesNothing ==
    answered.kind = "send" /\ answered.resp.code \in {400, 404, 500}
    => answered.msgs = <<>> /\ answered.nflags = 0

(***************************************************************************)
(* The recruiter's decision (specification SpecApi).                       *)
(***************************************************************************)
\* C25: a status edit makes the status accepted or rejected only when it was
\* submitted, evaluated, accepted or rejected before, never directly from
\* pending or in_progress.
C25_DecisionOnlyAfterSubmission ==
    (/\ answered.kind = "patch" /\ answered.code = 200
     /\ status \in {"accepted", "rejected"})
    => answered.request.before \in {"submitted", "evaluated", "accepted", "rejected"}

(***************************************************************************)
(* What a turn sends to the completion service (specification Spec).       *)
(***************************************************************************)
\* C26: the role-tagged turns a send passes to the completion service are
\* exactly the transcript in creation order up to and including the turn's
\* candidate Message, each Message once, the candidate Message last.
C26_TurnsAreTheTranscript ==
    \A r \in Slots :
        req[r].kind = "send" /\ req[r].pc = "createAssistantMessage"
        => req[r].turns = SubSeq(messages, 1, req[r].msgs[1])

(***************************************************************************)
(* The stage of a turn (specification SpecAgents).                         *)
(***************************************************************************)
\* C27: the stage the Conductor returns for a turn is introduction only when
\* the transcript holds no interviewer Message before the turn; with at least
\* one it is questioning, follow_up or closing, whatever the model returned.
C27_IntroductionOnlyFirst ==
    agentOut.agent = "interview"
    => IF questionCount(agentIn.history) = 0
       THEN agentOut.result.stage.s \in StageTags
       ELSE agentOut.result.stage.s \in StageTags \ {"introduction"}

(***************************************************************************)
(* Status, Evaluation and submission timestamp while no recruiter edits    *)
(* the status (specification SpecCandidate).                               *)
(***************************************************************************)
\* C29: while no recruiter status edit has been applied, in every reachable
\* state an evaluated Application has an Evaluation, and an Application with
\* an Evaluation has a submission timestamp and is submitted or evaluated.
C29_EvaluatedHasEvaluation ==
    /\ status = "evaluated" => evaluations # <<>>
    /\ evaluations # <<>>
       => submittedAt > 0 /\ status \in {"submitted", "evaluated"}

\* a submit has scored the transcript and left the Application evaluated
C29_Witness ==
    /\ answered.kind = "submit" /\ answered.resp = SubmittedOk
    /\ status = "evaluated"
    /\ Len(evaluations) = 1
    /\ submittedAt > 0

(***************************************************************************)
(* After a submit of an empty transcript (specification                    *)
(* SpecAfterEmptySubmit).                                                  *)
(***************************************************************************)
\* C28: a submit accepted on an Application with no Messages sets submitted
\* and the timestamp, calls no Scorer, creates no Evaluation and answers
\* success; afterwards no send or submit attaches an Evaluation to the
\* Application or moves it to evaluated.
C28_EmptySubmitStaysUnscored ==
    /\ (/\ answered.kind = "submit" /\ answered.resp.code = 200
        /\ answered.histLen = 0)
       => /\ answered.resp = SubmittedOk
          /\ answered.writes = <<"submitted">>
          /\ answered.evals = <<>>
          /\ submittedAt > 0
    /\ status # "evaluated"
    /\ evaluations = <<>>

====
